---- MODULE Spec2Model ----
(***************************************************************************)
(* The MAGI decision engine (src/magi/core/engine.py, decision.py,         *)
(* brain.py): three brains deliberate over a question in rounds, and the   *)
(* engine synthesizes one Decision from the last round's verdicts.         *)
(*                                                                         *)
(* Numbers.  A confidence is a Python float; here it is an integer number  *)
(* of tenths (10 is 1.0, 5 is 0.5, 7 is 0.7).  A weighted score is an      *)
(* integer number of hundredths, so that confidence * 0.5 is c * 5 and     *)
(* confidence itself is c * 10.  A deadlock sums at most two non-zero      *)
(* scores, and the sign of such a float sum is exact, so the integer sum   *)
(* has the sign the float sum has.                                         *)
(*                                                                         *)
(* Dicts.  A Python dict is a function together with its insertion order.  *)
(* Two dicts are equal whatever their order, so a stored round keeps the   *)
(* function; verdict_order keeps the insertion order of the verdict dict   *)
(* of the round in progress, which is the one the engine iterates over     *)
(* (cross-examination, synthesis).                                         *)
(***************************************************************************)
EXTENDS Integers, Sequences, FiniteSets, TLC

VARIABLES
    config,              \* EngineConfig of the engine under test
    backend,             \* what the reasoning backend may answer in this run
    pc,                  \* position of the thread running deliberate()
    round_num,           \* loop variable of deliberate()
    callbacks,           \* the observers registered on the engine
    calls,               \* per brain: its form_verdict call of this round
    filtered_positions,  \* per brain: the other_positions handed to form_verdict
    verdicts,            \* the verdict dict under construction in this round
    verdict_order,       \* insertion order of that dict
    cross_examinations,  \* the cross-examination dict under construction
    decision,            \* the Decision object built by deliberate()
    raised,              \* the exception deliberate() raised, or None
    observed,            \* the observer callbacks invoked so far, in order
    system,              \* the MAGISystem of the network layer and its deliberate() call
    protocol             \* the ConsensusProtocol of the network layer and its sessions

vars == <<config, backend, callbacks, pc, round_num, calls, filtered_positions, verdicts,
          verdict_order, cross_examinations, decision, raised, observed, system, protocol>>

-----------------------------------------------------------------------------
(* Bounds of the model *)

\* Largest max_deliberation_rounds the engine is configured with.
MaxRounds == 2

\* Confidences are the multiples of 0.5 from 0.0 to MaxConf * 0.5.
MaxConf == 2

-----------------------------------------------------------------------------
(* Values *)

None == "None"

\* self.brains: the keys are the lowercased brain names, in construction order.
brains == <<"melchior", "balthasar", "casper">>

BrainKeys == {brains[i] : i \in 1..Len(brains)}

\* Brain.name is Personality.name, which is capitalised.
name(b) ==
    CASE b = "melchior" -> "Melchior"
      [] b = "balthasar" -> "Balthasar"
      [] b = "casper" -> "Casper"

VerdictType == {"approve", "reject", "conditional", "abstain", "defer", "info"}

ConsensusType ==
    {"unanimous", "majority", "deadlock", "conditional", "deferred", "informational"}

DeadlockResolutions == {"majority", "cautious", "optimistic"}

Confidences == {5 * i : i \in 0..MaxConf}

EmptyDict == <<>>

-----------------------------------------------------------------------------
(* decision.py: Verdict and DeliberationRound *)

Verdict(brain_name, verdict_type, confidence, summary, reasoning, conditions, round) ==
    [brain_name |-> brain_name, verdict_type |-> verdict_type,
     confidence |-> confidence, summary |-> summary, reasoning |-> reasoning,
     conditions |-> conditions, deliberation_round |-> round]

\* A conditional verdict weighted like an approval.
weighted_score_full(v) ==
    IF v.verdict_type \in {"approve", "conditional"} THEN v.confidence * 10
    ELSE IF v.verdict_type = "reject" THEN -(v.confidence * 10)
    ELSE 0

\* Verdict.weighted_score, in hundredths.
weighted_score(v) ==
    IF v.verdict_type = "approve" THEN v.confidence * 10
    ELSE IF v.verdict_type = "reject" THEN -(v.confidence * 10)
    ELSE IF v.verdict_type = "conditional" THEN v.confidence * 5
    ELSE 0

\* [v.verdict_type for v in verdicts.values()], in the dict's iteration order.
verdict_types(vs, order) == [i \in 1..Len(order) |-> vs[order[i]].verdict_type]

SeqRange(s) == {s[i] : i \in 1..Len(s)}

\* How often t occurs in the list types.
Count(types, t) == Cardinality({i \in 1..Len(types) : types[i] = t})

\* DeliberationRound.has_consensus
has_consensus(vs, order) == Cardinality(SeqRange(verdict_types(vs, order))) = 1

\* Counter(types).most_common(1): the first inserted among the most frequent.
most_common(types) ==
    IF Len(types) = 0 THEN <<>>
    ELSE LET top == CHOOSE i \in 1..Len(types) :
                       /\ \A j \in 1..Len(types) : Count(types, types[j]) <= Count(types, types[i])
                       /\ \A j \in 1..(i - 1) : Count(types, types[j]) < Count(types, types[i])
         IN  <<types[top], Count(types, types[top])>>

\* A majority only when all three agree.
majority_verdict_all(vs, order) ==
    LET mc == most_common(verdict_types(vs, order))
    IN  IF Len(mc) > 0 /\ mc[2] >= 3 THEN mc[1] ELSE None

\* The most common kind a majority whatever its count.
majority_verdict_any(vs, order) ==
    LET mc == most_common(verdict_types(vs, order))
    IN  IF Len(mc) > 0 /\ mc[2] >= 1 THEN mc[1] ELSE None

\* DeliberationRound.majority_verdict
majority_verdict(vs, order) ==
    LET mc == most_common(verdict_types(vs, order))
    IN  IF Len(mc) > 0 /\ mc[2] >= 2 THEN mc[1] ELSE None

\* sum(...) over a list of numbers.
RECURSIVE Sum(_)
Sum(s) == IF Len(s) = 0 THEN 0 ELSE s[1] + Sum(Tail(s))

-----------------------------------------------------------------------------
(* brain.py: what one form_verdict call does with the backend's answer *)

\* verdict_map.get(verdict_str, VerdictType.INFO)
verdict_map(verdict_str) ==
    IF verdict_str \in VerdictType THEN verdict_str
    ELSE IF verdict_str = "yes" THEN "approve"
    ELSE IF verdict_str = "no" THEN "reject"
    ELSE "info"

\* The answers of the backend to one structured call: a JSON object, a text
\* that is no JSON, or a failure of the call.
JsonResponse(verdict_str, confidence, conditions) ==
    [kind |-> "json", verdict |-> verdict_str, confidence |-> confidence,
     conditions |-> conditions]

\* A JSON object without a "confidence" key.
JsonNoConfidence(verdict_str, conditions) ==
    [kind |-> "json", verdict |-> verdict_str, conditions |-> conditions]

TextResponse == [kind |-> "text"]

RaiseResponse == [kind |-> "raise"]

\* The backend never answers the request.
HangResponse == [kind |-> "hang"]

\* Brain._parse_verdict_response
_parse_verdict_response(b, response, round_number) ==
    IF response.kind = "text"
    THEN Verdict(name(b), "info", 5, "Unable to parse response", "response",
                 <<>>, round_number)
    ELSE Verdict(name(b), verdict_map(response.verdict),
                 IF "confidence" \in DOMAIN response THEN response.confidence ELSE 7,
                 "summary", "reasoning", response.conditions, round_number)

\* Brain.form_verdict: the outcome of the call, a returned Verdict or an
\* exception (_call_llm has no handler around it); the request carries no
\* timeout, so a call the backend never answers stays where it is ("hung").
form_verdict(b, response, round_number) ==
    IF response.kind = "raise"
    THEN [state |-> "raised", exception |-> "backend error"]
    ELSE IF response.kind = "hang"
    THEN [state |-> "hung"]
    ELSE [state |-> "returned",
          verdict |-> _parse_verdict_response(b, response, round_number)]

-----------------------------------------------------------------------------
(* engine.py: collecting one round's verdicts *)

\* The error verdict built in the except clause of _get_verdicts_parallel and
\* of _get_verdicts_sequential; e is str(e) of the exception caught.
ErrorSummary(e) ==
    CASE e = "backend error" -> "Error: backend error"
      [] e = "callback error" -> "Error: callback error"

ErrorVerdict(b, e, round_number) ==
    Verdict(b, "abstain", 0, ErrorSummary(e), e, <<>>, round_number)

\* What the try/except around the form_verdict result leaves in verdicts[name]:
\* outcome is the outcome of the call, observer the outcome of the
\* on_brain_verdict callback ("none" when no callback is registered).  The
\* callback is called inside the try, after verdicts[name] = verdict.
RecordedVerdict(b, outcome, observer, round_number) ==
    IF outcome.state = "returned"
    THEN IF observer = "raise"
         THEN ErrorVerdict(b, "callback error", round_number)
         ELSE outcome.verdict
    ELSE ErrorVerdict(b, outcome.exception, round_number)

\* The callback invoked twice.
Invoked_twice(log, registered, hook, round_number) ==
    IF registered = {} THEN log
    ELSE log \o << [hook |-> hook, round |-> round_number],
                   [hook |-> hook, round |-> round_number] >>

\* if self._on_xxx: self._on_xxx(...): the callbacks invoked so far after this
\* statement; log is the callbacks invoked before it, registered the outcomes
\* registered for the callback (none when it is not set), round_number the
\* round the call is about.
Invoked(log, registered, hook, round_number) ==
    IF registered = {} THEN log
    ELSE Append(log, [hook |-> hook, round |-> round_number])

\* if self._on_xxx: the outcomes of calling a callback, which is the set of
\* outcomes registered for it, and "none" when none is registered.
CallbackOutcomes(registered) == IF registered = {} THEN {"none"} ELSE registered

\* The dict replaced by the one entry instead of updated.
DictSet_only(d, k, v) == [x \in {k} |-> v]

\* verdicts[name] = v on an insertion-ordered dict.
DictSet(d, k, v) == [x \in (DOMAIN d) \cup {k} |-> IF x = k THEN v ELSE d[x]]

OrderSet(order, k) == IF k \in SeqRange(order) THEN order ELSE Append(order, k)

\* other_positions of _run_deliberation_round: summary + " " + reasoning[:500]
\* of every verdict of the previous round, or None.
\* rounds is decision.rounds; previous_round is its last element, if any.
other_positions(rounds, round_number) ==
    IF Len(rounds) > 0 /\ round_number > 1
    THEN LET previous_round == rounds[Len(rounds)]
         IN  [given |-> TRUE,
              positions |-> [k \in DOMAIN previous_round.verdicts |->
                  <<previous_round.verdicts[k].summary,
                    previous_round.verdicts[k].reasoning>>]]
    ELSE [given |-> FALSE]

\* The positions handed over unfiltered, the brain's own included.
FilteredPositions_unfiltered(others, b) == others

\* The filtered_positions handed to brain b: other_positions without b's own.
FilteredPositions(others, b) ==
    IF others.given /\ DOMAIN others.positions # {}
    THEN [given |-> TRUE,
          positions |-> [k \in (DOMAIN others.positions) \ {b} |-> others.positions[k]]]
    ELSE [given |-> FALSE]


-----------------------------------------------------------------------------
(* engine.py: synthesis of the final decision *)

\* Decision(question=question): the dataclass defaults.  final_answer is the
\* list of the parts the answer string is joined from (the empty list is "").
NewDecision ==
    [question_type |-> "unknown", rounds |-> <<>>, consensus_type |-> "deadlock",
     final_verdict |-> None, final_answer |-> <<>>, final_verdicts |-> EmptyDict,
     synthesis |-> "", key_agreements |-> <<>>, key_disagreements |-> <<>>,
     conditions |-> <<>>]

\* Every round numbered 1.
DeliberationRound_first(round_number, vs, xs) ==
    [round_number |-> 1, verdicts |-> vs, cross_examinations |-> xs]

DeliberationRound(round_number, vs, xs) ==
    [round_number |-> round_number, verdicts |-> vs, cross_examinations |-> xs]

\* A zero total resolved like a positive one.
_resolve_deadlock_zero(cfg, vs, order) ==
    IF cfg.deadlock_resolution = "cautious" THEN "reject"
    ELSE IF cfg.deadlock_resolution = "optimistic" THEN "approve"
    ELSE LET total_score == Sum([i \in 1..Len(order) |-> weighted_score(vs[order[i]])])
         IN  IF total_score >= 0 THEN "approve" ELSE "reject"

\* The two fixed policies exchanged.
_resolve_deadlock_swapped(cfg, vs, order) ==
    IF cfg.deadlock_resolution = "cautious" THEN "approve"
    ELSE IF cfg.deadlock_resolution = "optimistic" THEN "reject"
    ELSE LET total_score == Sum([i \in 1..Len(order) |-> weighted_score(vs[order[i]])])
         IN  IF total_score > 0 THEN "approve"
             ELSE IF total_score < 0 THEN "reject"
             ELSE "abstain"

\* The sign of the score of the verdict inserted first, not of the sum.
_resolve_deadlock_first(cfg, vs, order) ==
    IF cfg.deadlock_resolution = "cautious" THEN "reject"
    ELSE IF cfg.deadlock_resolution = "optimistic" THEN "approve"
    ELSE LET total_score == weighted_score(vs[order[1]])
         IN  IF total_score > 0 THEN "approve"
             ELSE IF total_score < 0 THEN "reject"
             ELSE "abstain"

\* A zero total left undecided.
_resolve_deadlock_none(cfg, vs, order) ==
    IF cfg.deadlock_resolution = "cautious" THEN "reject"
    ELSE IF cfg.deadlock_resolution = "optimistic" THEN "approve"
    ELSE LET total_score == Sum([i \in 1..Len(order) |-> weighted_score(vs[order[i]])])
         IN  IF total_score > 0 THEN "approve"
             ELSE IF total_score < 0 THEN "reject"
             ELSE None

\* MAGIEngine._resolve_deadlock
_resolve_deadlock(cfg, vs, order) ==
    IF cfg.deadlock_resolution = "cautious" THEN "reject"
    ELSE IF cfg.deadlock_resolution = "optimistic" THEN "approve"
    ELSE LET total_score == Sum([i \in 1..Len(order) |-> weighted_score(vs[order[i]])])
         IN  IF total_score > 0 THEN "approve"
             ELSE IF total_score < 0 THEN "reject"
             ELSE "abstain"

\* The informational check left out: an all-info round is then unanimous.
all_info_dropped(types) == FALSE

\* all(vt == VerdictType.INFO for vt in verdict_types)
all_info(types) == \A i \in 1..Len(types) : types[i] = "info"

\* The length of the list taken for the size of the set.
unanimous_len(types) == Len(types) = 1

\* len(unique_types) == 1, with unique_types = set(verdict_types)
unanimous(types) == Cardinality(SeqRange(types)) = 1

\* Only the approvals counted.
affirmative_approve(types) == Cardinality({i \in 1..Len(types) : types[i] = "approve"})

\* sum(1 for vt in verdict_types if vt in (APPROVE, CONDITIONAL))
affirmative(types) ==
    Cardinality({i \in 1..Len(types) : types[i] \in {"approve", "conditional"}})

\* The final verdict of a conditional majority taken from the deadlock policy.
consensus_of_resolved(cfg, vs, order) ==
    LET types == verdict_types(vs, order)
        unique_types == SeqRange(types)
        deadlock == [consensus_type |-> "deadlock",
                     final_verdict |-> _resolve_deadlock(cfg, vs, order)]
    IN  IF unanimous(types)
        THEN [consensus_type |-> "unanimous", final_verdict |-> types[1]]
        ELSE IF majority_verdict(vs, order) # None
        THEN [consensus_type |-> "majority", final_verdict |-> majority_verdict(vs, order)]
        ELSE IF "conditional" \in unique_types
        THEN IF affirmative(types) >= 2
             THEN [consensus_type |-> "conditional",
                   final_verdict |-> _resolve_deadlock(cfg, vs, order)]
             ELSE deadlock
        ELSE deadlock

\* The if/elif chain of _synthesize_decision below the informational check:
\* the consensus type and the final verdict.
consensus_of(cfg, vs, order) ==
    LET types == verdict_types(vs, order)
        unique_types == SeqRange(types)
        deadlock == [consensus_type |-> "deadlock",
                     final_verdict |-> _resolve_deadlock(cfg, vs, order)]
    IN  IF unanimous(types)
        THEN [consensus_type |-> "unanimous", final_verdict |-> types[1]]
        ELSE IF majority_verdict(vs, order) # None
        THEN [consensus_type |-> "majority", final_verdict |-> majority_verdict(vs, order)]
        ELSE IF "conditional" \in unique_types
        THEN IF affirmative(types) >= 2
             THEN [consensus_type |-> "conditional", final_verdict |-> "conditional"]
             ELSE deadlock
        ELSE deadlock

\* for verdict in final_round.verdicts.values(): conditions.extend(verdict.conditions)
RECURSIVE extend_conditions(_, _, _)
extend_conditions(conditions, vs, order) ==
    IF Len(order) = 0 THEN conditions
    ELSE extend_conditions(conditions \o vs[order[1]].conditions, vs, Tail(order))

\* Every verdict listed as dissenting.
RECURSIVE dissents_all(_, _, _)
dissents_all(vs, order, final_verdict) ==
    IF Len(order) = 0 THEN <<>>
    ELSE LET v == vs[order[1]]
         IN  <<[brain_name |-> v.brain_name, dissents_with |-> v.verdict_type,
                summary |-> v.summary]>> \o dissents_all(vs, Tail(order), final_verdict)

\* The list cut after the first dissenting verdict.
RECURSIVE dissents_one(_, _, _)
dissents_one(vs, order, final_verdict) ==
    IF Len(order) = 0 THEN <<>>
    ELSE LET v == vs[order[1]]
         IN  IF v.verdict_type # final_verdict
             THEN <<[brain_name |-> v.brain_name, dissents_with |-> v.verdict_type,
                     summary |-> v.summary]>>
             ELSE dissents_one(vs, Tail(order), final_verdict)

\* The list comprehension of dissenting verdicts, in iteration order.
RECURSIVE dissents(_, _, _)
dissents(vs, order, final_verdict) ==
    IF Len(order) = 0 THEN <<>>
    ELSE LET v == vs[order[1]]
             rest == dissents(vs, Tail(order), final_verdict)
         IN  IF v.verdict_type # final_verdict
             THEN <<[brain_name |-> v.brain_name, dissents_with |-> v.verdict_type,
                     summary |-> v.summary]>> \o rest
             ELSE rest

\* MAGIEngine._identify_agreements_and_disagreements
_identify_agreements_and_disagreements(d, order) ==
    LET types == verdict_types(d.final_verdicts, order)
    IN  IF Cardinality(SeqRange(types)) = 1
        THEN [d EXCEPT !.key_agreements = Append(@, <<"All three brains agree", types[1]>>)]
        ELSE [d EXCEPT !.key_disagreements =
                            @ \o dissents(d.final_verdicts, order, d.final_verdict)]

\* MAGIEngine._synthesize_informational_response
_synthesize_informational_response(d, order) ==
    [i \in 1..Len(order) |-> <<order[i], d.final_verdicts[order[i]].reasoning>>]

\* The first round taken for the final round.
synthesize_until_call_first(d, cfg, order) ==
    IF Len(d.rounds) = 0 THEN d
    ELSE LET final_round == d.rounds[1]
             d1 == [d EXCEPT !.final_verdicts = final_round.verdicts]
             types == verdict_types(final_round.verdicts, order)
         IN  IF all_info(types)
             THEN [d1 EXCEPT !.consensus_type = "informational",
                             !.final_verdict = "info",
                             !.final_answer =
                                 _synthesize_informational_response(d1, order)]
             ELSE LET c == consensus_of(cfg, final_round.verdicts, order)
                  IN  [d1 EXCEPT !.consensus_type = c.consensus_type,
                                 !.final_verdict = c.final_verdict,
                                 !.conditions =
                                     extend_conditions(@, final_round.verdicts, order)]

\* MAGIEngine._synthesize_decision up to the call of _generate_synthesis: the
\* decision as it stands when the backend is asked for the synthesis (for an
\* informational decision, as it stands at the early return).
synthesize_until_call(d, cfg, order) ==
    IF Len(d.rounds) = 0 THEN d
    ELSE LET final_round == d.rounds[Len(d.rounds)]
             d1 == [d EXCEPT !.final_verdicts = final_round.verdicts]
             types == verdict_types(final_round.verdicts, order)
         IN  IF all_info(types)
             THEN [d1 EXCEPT !.consensus_type = "informational",
                             !.final_verdict = "info",
                             !.final_answer =
                                 _synthesize_informational_response(d1, order)]
             ELSE LET c == consensus_of(cfg, final_round.verdicts, order)
                  IN  [d1 EXCEPT !.consensus_type = c.consensus_type,
                                 !.final_verdict = c.final_verdict,
                                 !.conditions =
                                     extend_conditions(@, final_round.verdicts, order)]

\* The call of _generate_synthesis reached for an informational decision too.
calls_generate_synthesis_always(d, order) == Len(d.rounds) > 0

\* Whether _synthesize_decision reaches the call of _generate_synthesis.
calls_generate_synthesis(d, order) ==
    /\ Len(d.rounds) > 0
    /\ ~all_info(verdict_types(d.rounds[Len(d.rounds)].verdicts, order))

\* MAGIEngine._synthesize_decision, given the text _generate_synthesis returned.
_synthesize_decision(d, cfg, order, text) ==
    LET d1 == synthesize_until_call(d, cfg, order)
    IN  IF ~calls_generate_synthesis(d, order) THEN d1
        ELSE _identify_agreements_and_disagreements(
                 [d1 EXCEPT !.synthesis = text, !.final_answer = <<text>>], order)

-----------------------------------------------------------------------------
(* engine.py: classify_question *)

ValidTypes == {"yes_no", "open", "analytical", "ethical", "predictive"}

\* any(word in result for word in ["yes", "no"]) for the answers modelled:
\* "unknown" and "not sure" contain "no", "yes." contains "yes".
contains_yes_or_no(result) == result \in {"yes.", "unknown", "not sure"}

\* The validation at the end of classify_question; result is the backend's
\* answer, stripped and lowercased.
classify_result(result) ==
    IF result \in ValidTypes THEN result
    ELSE IF contains_yes_or_no(result) THEN "yes_no"
    ELSE "open"

-----------------------------------------------------------------------------
(* engine.py: deliberate() as a state machine *)

NoCalls == [b \in BrainKeys |-> [state |-> "none"]]

NoPositions == [b \in BrainKeys |-> [given |-> FALSE]]

\* The pass run in the last round as well.
runs_cross_examination_always(cfg, round_number) == cfg.enable_cross_examination

\* The condition of the cross-examination pass in _run_deliberation_round.
runs_cross_examination(cfg, round_number) ==
    cfg.enable_cross_examination /\ round_number < cfg.max_deliberation_rounds

AfterVerdicts(cfg, round_number) ==
    IF runs_cross_examination(cfg, round_number) THEN "cross_examine" ELSE "round_complete"

\* The (examiner, examined) pairs in the order the nested loops of
\* _run_cross_examination visit them.
RECURSIVE ExaminedBy(_, _)
ExaminedBy(examiner, order) ==
    IF Len(order) = 0 THEN <<>>
    ELSE (IF order[1] # examiner THEN <<<<examiner, order[1]>>>> ELSE <<>>)
         \o ExaminedBy(examiner, Tail(order))

RECURSIVE ExaminationPairs(_, _)
ExaminationPairs(examiners, order) ==
    IF Len(examiners) = 0 THEN <<>>
    ELSE ExaminedBy(examiners[1], order) \o ExaminationPairs(Tail(examiners), order)

\* A majority taken for consensus.
early_consensus_majority(cfg, vs, order, round_number) ==
    majority_verdict(vs, order) # None /\ round_number < cfg.max_deliberation_rounds

\* Three abstentions not taken for consensus.
early_consensus_answered(cfg, vs, order, round_number) ==
    /\ has_consensus(vs, order)
    /\ \E b \in DOMAIN vs : vs[b].verdict_type # "abstain"
    /\ round_number < cfg.max_deliberation_rounds

\* The early-exit test of the round loop.
early_consensus(cfg, vs, order, round_number) ==
    has_consensus(vs, order) /\ round_number < cfg.max_deliberation_rounds

\* deliberate() is entered: the Decision is created.
Deliberate ==
    /\ pc = "idle"
    /\ decision' = NewDecision
    /\ pc' = "classify"
    /\ UNCHANGED <<system, protocol, config, backend, callbacks, observed, round_num, calls, filtered_positions, verdicts,
                   verdict_order, cross_examinations, raised>>

\* A failed classification answered with the default type.
Classify_defaulting ==
    /\ pc = "classify"
    /\ IF ~backend.client
       THEN /\ decision' = [decision EXCEPT !.question_type = "open"]
            /\ round_num' = 1
            /\ pc' = "round"
            /\ UNCHANGED raised
       ELSE \E answer \in backend.classify :
              /\ decision' = [decision EXCEPT !.question_type =
                      IF answer.kind = "raise" THEN "open"
                      ELSE classify_result(answer.content)]
              /\ round_num' = 1
              /\ pc' = "round"
              /\ UNCHANGED raised
    /\ UNCHANGED <<system, protocol, config, backend, callbacks, observed, calls, filtered_positions, verdicts,
                   verdict_order, cross_examinations>>

\* decision.question_type = self.classify_question(question); an exception of
\* classify_question leaves deliberate().
Classify ==
    /\ pc = "classify"
    /\ IF ~backend.client
       THEN /\ raised' = "No LLM client configured"
            /\ pc' = "raised"
            /\ UNCHANGED <<decision, round_num>>
       ELSE \E answer \in backend.classify :
              IF answer.kind = "raise"
              THEN /\ raised' = "backend error"
                   /\ pc' = "raised"
                   /\ UNCHANGED <<decision, round_num>>
              ELSE /\ decision' = [decision EXCEPT
                                      !.question_type = classify_result(answer.content)]
                   /\ round_num' = 1
                   /\ pc' = "round"
                   /\ UNCHANGED raised
    /\ UNCHANGED <<system, protocol, config, backend, callbacks, observed, calls, filtered_positions, verdicts,
                   verdict_order, cross_examinations>>

\* _run_deliberation_round up to the point where the form_verdict calls are
\* under way: other_positions is built, and in parallel mode the three calls
\* are submitted to the executor.
StartRound ==
    /\ pc = "round"
    /\ LET others == other_positions(decision.rounds, round_num)
       IN  filtered_positions' = [b \in BrainKeys |-> FilteredPositions(others, b)]
    /\ verdicts' = EmptyDict
    /\ verdict_order' = <<>>
    /\ cross_examinations' = EmptyDict
    /\ IF config.parallel_processing
       THEN /\ calls' = [b \in BrainKeys |-> [state |-> "running"]]
            /\ pc' = "collect"
       ELSE /\ calls' = NoCalls
            /\ pc' = "sequential"
    /\ UNCHANGED <<system, protocol, config, backend, callbacks, observed, round_num, decision, raised>>

\* The worker thread writing its verdict into the round's dict itself.
WorkerCompletes_recording(b) ==
    /\ pc = "collect"
    /\ calls[b].state = "running"
    /\ \E response \in backend.form_verdict :
          /\ calls' = [calls EXCEPT ![b] = form_verdict(b, response, round_num)]
          /\ verdicts' = DictSet(verdicts, b,
                              RecordedVerdict(b, calls'[b], "none", round_num))
          /\ verdict_order' = OrderSet(verdict_order, b)
    /\ pc' = IF DOMAIN verdicts' = BrainKeys
             THEN AfterVerdicts(config, round_num) ELSE "collect"
    /\ UNCHANGED <<system, protocol, config, backend, callbacks, observed, round_num, filtered_positions,
                   cross_examinations, decision, raised>>

\* A worker thread of the executor finishes brain b's form_verdict call: the
\* future holds the returned Verdict or the exception.
WorkerCompletes(b) ==
    /\ pc = "collect"
    /\ calls[b].state = "running"
    /\ \E response \in backend.form_verdict :
          calls' = [calls EXCEPT ![b] = form_verdict(b, response, round_num)]
    /\ UNCHANGED <<system, protocol, config, backend, callbacks, observed, pc, round_num, filtered_positions, verdicts,
                   verdict_order, cross_examinations, decision, raised>>

\* The round going on after the first verdict collected.
Collect_eager(b) ==
    /\ pc = "collect"
    /\ calls[b].state \in {"returned", "raised"}
    /\ b \notin DOMAIN verdicts
    /\ \E observer \in CallbackOutcomes(callbacks.on_brain_verdict) :
          verdicts' = DictSet(verdicts, b,
                              RecordedVerdict(b, calls[b], observer, round_num))
    /\ verdict_order' = OrderSet(verdict_order, b)
    /\ observed' = IF calls[b].state = "returned"
                   THEN Invoked(observed, callbacks.on_brain_verdict,
                                "on_brain_verdict", round_num)
                   ELSE observed
    /\ pc' = AfterVerdicts(config, round_num)
    /\ UNCHANGED <<system, protocol, config, backend, callbacks, round_num, calls, filtered_positions,
                   cross_examinations, decision, raised>>

\* One iteration of "for future in as_completed(calls)" in the thread of
\* deliberate(); after the last one the executor is left and the round goes on.
Collect(b) ==
    /\ pc = "collect"
    /\ calls[b].state \in {"returned", "raised"}
    /\ b \notin DOMAIN verdicts
    /\ \E observer \in CallbackOutcomes(callbacks.on_brain_verdict) :
          verdicts' = DictSet(verdicts, b,
                              RecordedVerdict(b, calls[b], observer, round_num))
    /\ verdict_order' = OrderSet(verdict_order, b)
    /\ observed' = IF calls[b].state = "returned"
                   THEN Invoked(observed, callbacks.on_brain_verdict,
                                "on_brain_verdict", round_num)
                   ELSE observed
    /\ pc' = IF DOMAIN verdicts' = BrainKeys
             THEN AfterVerdicts(config, round_num) ELSE "collect"
    /\ UNCHANGED <<system, protocol, config, backend, callbacks, round_num, calls, filtered_positions,
                   cross_examinations, decision, raised>>

\* The sequential loop not notifying the observer.
SequentialVerdict_unnotified ==
    /\ pc = "sequential"
    /\ LET b == brains[Len(verdict_order) + 1]
       IN  /\ calls[b].state # "hung"
           /\ \E response \in backend.form_verdict,
                 observer \in CallbackOutcomes(callbacks.on_brain_verdict) :
                /\ calls' = [calls EXCEPT ![b] = form_verdict(b, response, round_num)]
                /\ IF calls'[b].state = "hung"
                   THEN UNCHANGED <<verdicts, verdict_order>>
                   ELSE /\ verdicts' = DictSet(verdicts, b,
                               RecordedVerdict(b, calls'[b], observer, round_num))
                        /\ verdict_order' = OrderSet(verdict_order, b)
    /\ pc' = IF Len(verdict_order') = Len(brains)
             THEN AfterVerdicts(config, round_num) ELSE "sequential"
    /\ UNCHANGED <<system, protocol, config, backend, callbacks, observed, round_num, filtered_positions,
                   cross_examinations, decision, raised>>

\* One iteration of the loop of _get_verdicts_sequential; the loop stands
\* still in a form_verdict call that never returns.
SequentialVerdict ==
    /\ pc = "sequential"
    /\ LET b == brains[Len(verdict_order) + 1]
       IN  /\ calls[b].state # "hung"
           /\ \E response \in backend.form_verdict,
                 observer \in CallbackOutcomes(callbacks.on_brain_verdict) :
                /\ calls' = [calls EXCEPT ![b] = form_verdict(b, response, round_num)]
                /\ IF calls'[b].state = "hung"
                   THEN UNCHANGED <<verdicts, verdict_order>>
                   ELSE /\ verdicts' = DictSet(verdicts, b,
                               RecordedVerdict(b, calls'[b], observer, round_num))
                        /\ verdict_order' = OrderSet(verdict_order, b)
                /\ observed' = IF calls'[b].state = "returned"
                               THEN Invoked(observed, callbacks.on_brain_verdict,
                                            "on_brain_verdict", round_num)
                               ELSE observed
    /\ pc' = IF Len(verdict_order') = Len(brains)
             THEN AfterVerdicts(config, round_num) ELSE "sequential"
    /\ UNCHANGED <<system, protocol, config, backend, callbacks, round_num, filtered_positions,
                   cross_examinations, decision, raised>>

\* The pass left after its first call.
CrossExamine_once ==
    /\ pc = "cross_examine"
    /\ LET pairs == ExaminationPairs(brains, verdict_order)
           pair == pairs[Cardinality(DOMAIN cross_examinations) + 1]
       IN  /\ \E outcome \in backend.cross_examine :
                cross_examinations' = DictSet(cross_examinations, pair,
                    IF outcome = "raise" THEN "Error: backend error" ELSE "critique")
           /\ pc' = "round_complete"
    /\ UNCHANGED <<system, protocol, config, backend, callbacks, observed, round_num, calls, filtered_positions,
                   verdicts, verdict_order, decision, raised>>

\* The exception of a cross_examine call leaving deliberate().
CrossExamine_fatal ==
    /\ pc = "cross_examine"
    /\ LET pairs == ExaminationPairs(brains, verdict_order)
           pair == pairs[Cardinality(DOMAIN cross_examinations) + 1]
       IN  \E outcome \in backend.cross_examine :
              IF outcome = "raise"
              THEN /\ raised' = "backend error"
                   /\ pc' = "raised"
                   /\ UNCHANGED cross_examinations
              ELSE /\ cross_examinations' = DictSet(cross_examinations, pair, "critique")
                   /\ pc' = IF Cardinality(DOMAIN cross_examinations') = Len(pairs)
                            THEN "round_complete" ELSE "cross_examine"
                   /\ UNCHANGED raised
    /\ UNCHANGED <<system, protocol, config, backend, callbacks, observed, round_num, calls, filtered_positions,
                   verdicts, verdict_order, decision>>

\* One cross_examine call of _run_cross_examination and its try/except.
CrossExamine ==
    /\ pc = "cross_examine"
    /\ LET pairs == ExaminationPairs(brains, verdict_order)
           pair == pairs[Cardinality(DOMAIN cross_examinations) + 1]
       IN  /\ \E outcome \in backend.cross_examine :
                cross_examinations' = DictSet(cross_examinations, pair,
                    IF outcome = "raise" THEN "Error: backend error" ELSE "critique")
           /\ pc' = IF Cardinality(DOMAIN cross_examinations') = Len(pairs)
                    THEN "round_complete" ELSE "cross_examine"
    /\ UNCHANGED <<system, protocol, config, backend, callbacks, observed, round_num, calls, filtered_positions, verdicts,
                   verdict_order, decision, raised>>

\* The rest of one iteration of the round loop of deliberate(): the round is
\* appended, the on_round_complete callback is called (its exception leaves
\* deliberate()), and the loop breaks, goes on or ends.
RoundComplete ==
    /\ pc = "round_complete"
    /\ decision' = [decision EXCEPT !.rounds =
            Append(@, DeliberationRound(round_num, verdicts, cross_examinations))]
    /\ observed' = Invoked(observed, callbacks.on_round_complete,
                           "on_round_complete", round_num)
    /\ \E observer \in CallbackOutcomes(callbacks.on_round_complete) :
          IF observer = "raise"
          THEN /\ raised' = "callback error"
               /\ pc' = "raised"
               /\ UNCHANGED round_num
          ELSE /\ UNCHANGED raised
               /\ IF early_consensus(config, verdicts, verdict_order, round_num)
                  THEN /\ pc' = "synthesize"
                       /\ UNCHANGED round_num
                  ELSE IF round_num < config.max_deliberation_rounds
                  THEN /\ pc' = "round"
                       /\ round_num' = round_num + 1
                  ELSE /\ pc' = "synthesize"
                       /\ UNCHANGED round_num
    /\ UNCHANGED <<system, protocol, config, backend, callbacks, calls, filtered_positions, verdicts,
                   verdict_order, cross_examinations>>

\* self._synthesize_decision(decision); an exception of the backend call in
\* _generate_synthesis leaves deliberate().
Synthesize ==
    /\ pc = "synthesize"
    /\ IF calls_generate_synthesis(decision, verdict_order)
       THEN \E outcome \in backend.synthesis :
              IF outcome = "raise"
              THEN /\ decision' = synthesize_until_call(decision, config, verdict_order)
                   /\ raised' = "backend error"
                   /\ pc' = "raised"
              ELSE /\ decision' = _synthesize_decision(decision, config, verdict_order,
                                                       "synthesis")
                   /\ pc' = "complete"
                   /\ UNCHANGED raised
       ELSE /\ decision' = _synthesize_decision(decision, config, verdict_order, "")
            /\ pc' = "complete"
            /\ UNCHANGED raised
    /\ UNCHANGED <<system, protocol, config, backend, callbacks, observed, round_num, calls, filtered_positions, verdicts,
                   verdict_order, cross_examinations>>

\* The end of deliberate(): the on_decision_complete callback is called with
\* the Decision (its exception leaves deliberate()) and the Decision is
\* returned; the log keeps the number of rounds of the Decision handed over.
Complete ==
    /\ pc = "complete"
    /\ observed' = Invoked(observed, callbacks.on_decision_complete,
                           "on_decision_complete", Len(decision.rounds))
    /\ \E observer \in CallbackOutcomes(callbacks.on_decision_complete) :
          IF observer = "raise"
          THEN /\ raised' = "callback error"
               /\ pc' = "raised"
          ELSE /\ UNCHANGED raised
               /\ pc' = "returned"
    /\ UNCHANGED <<system, protocol, config, backend, callbacks, round_num, calls, filtered_positions,
                   verdicts, verdict_order, cross_examinations, decision>>

Next ==
    \/ Deliberate
    \/ Classify
    \/ StartRound
    \/ \E b \in BrainKeys : WorkerCompletes(b)
    \/ \E b \in BrainKeys : Collect(b)
    \/ SequentialVerdict
    \/ CrossExamine
    \/ RoundComplete
    \/ Synthesize
    \/ Complete

-----------------------------------------------------------------------------
(* network/system.py: MAGISystem.deliberate *)

\* self.units: the keys of the three MAGIUnit objects, in construction order.
units == <<"melchior", "balthasar", "casper">>

UnitKeys == {units[i] : i \in 1..Len(units)}

\* MAGIUnit.designation, which is also name.upper() of the unit's key.
designation(u) ==
    CASE u = "melchior" -> "MELCHIOR"
      [] u = "balthasar" -> "BALTHASAR"
      [] u = "casper" -> "CASPER"

\* MAGIUnit.form_verdict: the dict the unit returns for the backend's answer.
\* A unit without client or matrix returns a dict with no "verdict" key; a
\* JSON object is returned with the designation added; a failed call is
\* caught and returned as an ERROR verdict.  The method never raises.
unit_form_verdict(u, response) ==
    IF response.kind = "uninitialized"
    THEN [error |-> "Unit not properly initialized"]
    ELSE IF response.kind = "raise"
    THEN [designation |-> designation(u), verdict |-> "ERROR", error |-> "backend error"]
    ELSE [designation |-> designation(u), verdict |-> response.verdict,
          conditions |-> response.conditions]

\* The verdict dict written in the except clause of MAGISystem.deliberate.
SystemErrorVerdict(u, e) ==
    [designation |-> designation(u), verdict |-> "ERROR", error |-> e]

\* v.get("verdict", "ERROR")
verdict_of(v) == IF "verdict" \in DOMAIN v THEN v.verdict ELSE "ERROR"

\* v.get("conditions", [])
conditions_of(v) == IF "conditions" \in DOMAIN v THEN v.conditions ELSE <<>>

\* counts after the counting loop of _analyze_verdicts: the four initial keys
\* and every other verdict string met.
vote_counts(vs) ==
    [t \in {"APPROVE", "REJECT", "CONDITIONAL", "ERROR"} \cup {verdict_of(vs[u]) : u \in DOMAIN vs}
        |-> Cardinality({u \in DOMAIN vs : verdict_of(vs[u]) = t})]

\* The if/elif chain of _analyze_verdicts: the consensus and the final verdict.
system_consensus(counts, require_unanimous) ==
    IF counts["ERROR"] > 0
    THEN [consensus |-> "ERROR", final_verdict |-> None]
    ELSE IF counts["APPROVE"] = 3
    THEN [consensus |-> "UNANIMOUS_APPROVE", final_verdict |-> "APPROVE"]
    ELSE IF counts["REJECT"] = 3
    THEN [consensus |-> "UNANIMOUS_REJECT", final_verdict |-> "REJECT"]
    ELSE IF counts["APPROVE"] >= 2
    THEN [consensus |-> "MAJORITY_APPROVE",
          final_verdict |-> IF ~require_unanimous THEN "APPROVE" ELSE None]
    ELSE IF counts["REJECT"] >= 2
    THEN [consensus |-> "MAJORITY_REJECT",
          final_verdict |-> IF ~require_unanimous THEN "REJECT" ELSE None]
    ELSE IF counts["CONDITIONAL"] >= 2
    THEN [consensus |-> "CONDITIONAL", final_verdict |-> "CONDITIONAL"]
    ELSE [consensus |-> "DEADLOCK", final_verdict |-> None]

\* The list comprehension of dissenting_units, in the dict's iteration order.
RECURSIVE dissenting_units(_, _, _)
dissenting_units(vs, order, final_verdict) ==
    IF Len(order) = 0 THEN <<>>
    ELSE LET v == vs[order[1]]
             rest == dissenting_units(vs, Tail(order), final_verdict)
         IN  IF final_verdict # None /\ verdict_of(v) # final_verdict
             THEN <<v.designation>> \o rest
             ELSE rest

\* MAGISystem._analyze_verdicts; conditions is list(set(...)), a list in an
\* order the set fixes, kept here as the set.
_analyze_verdicts(vs, order, require_unanimous) ==
    LET counts == vote_counts(vs)
        c == system_consensus(counts, require_unanimous)
    IN  [consensus |-> c.consensus,
         final_verdict |-> c.final_verdict,
         action_authorized |-> c.final_verdict # None /\ c.consensus # "ERROR",
         verdicts |-> vs,
         vote_counts |-> counts,
         conditions |-> UNION {SeqRange(conditions_of(vs[u])) : u \in DOMAIN vs},
         dissenting_units |-> dissenting_units(vs, order, c.final_verdict)]

\* What a unit's backend may answer to a verdict request, and the unit left
\* without client or matrix.
UnitResponses ==
    {[kind |-> "json", verdict |-> v, conditions |-> <<>>] :
        v \in {"APPROVE", "REJECT", "ABSTAIN"}}
    \cup {[kind |-> "json", verdict |-> "CONDITIONAL", conditions |-> <<"c">>],
          [kind |-> "raise"], [kind |-> "uninitialized"]}

\* MAGISystem.__init__: the system as constructed, no deliberate call made.
\* No callback is registered.
NewSystem ==
    [status |-> "offline", pc |-> "idle", require_unanimous |-> FALSE,
     futures |-> [u \in UnitKeys |-> [state |-> "none"]],
     verdicts |-> EmptyDict, result |-> EmptyDict]

\* The variables of the engine, which the network layer does not touch.
engine == <<config, backend, callbacks, pc, round_num, calls, filtered_positions, verdicts,
            verdict_order, cross_examinations, decision, raised, observed>>

\* deliberate(query, require_unanimous) is entered: the status is set and the
\* three form_verdict calls are submitted to the executor.
SystemDeliberate ==
    /\ system.pc = "idle"
    /\ \E require_unanimous \in BOOLEAN :
          system' = [system EXCEPT !.status = "deliberating", !.pc = "collect",
                                   !.require_unanimous = require_unanimous,
                                   !.futures = [u \in UnitKeys |-> [state |-> "running"]],
                                   !.verdicts = EmptyDict]
    /\ UNCHANGED <<engine, protocol>>

\* A worker thread of the executor finishes unit u's form_verdict call.
UnitCompletes(u) ==
    /\ system.futures[u].state = "running"
    /\ \E response \in UnitResponses :
          system' = [system EXCEPT !.futures[u] =
                        [state |-> "done", result |-> unit_form_verdict(u, response)]]
    /\ UNCHANGED <<engine, protocol>>

\* One iteration of "for name, future in futures.items()": future.result
\* with its timeout.  A future that is done gives its dict; one still running
\* may run into the timeout, which the except clause turns into an ERROR
\* verdict.  After the last unit the verdicts are analyzed, the status is
\* reset and the result returned.
SystemCollect ==
    /\ system.pc = "collect"
    /\ LET u == units[Cardinality(DOMAIN system.verdicts) + 1]
           v == IF system.futures[u].state = "done"
                THEN system.futures[u].result
                ELSE SystemErrorVerdict(u, "timeout")
           vs == DictSet(system.verdicts, u, v)
       IN  IF DOMAIN vs = UnitKeys
           THEN system' = [system EXCEPT
                              !.verdicts = vs,
                              !.result = _analyze_verdicts(vs, units, system.require_unanimous),
                              !.status = "operational",
                              !.pc = "returned"]
           ELSE system' = [system EXCEPT !.verdicts = vs]
    /\ UNCHANGED <<engine, protocol>>

NextSystem ==
    \/ SystemDeliberate
    \/ \E u \in UnitKeys : UnitCompletes(u)
    \/ SystemCollect

-----------------------------------------------------------------------------
(* network/consensus.py: ConsensusProtocol and VotingSession *)

\* Most votes a session stores in the runs modelled.
MaxVotes == 3

DecisionCategory == {"routine", "important", "critical", "self_destruct", "advisory"}

VoteType == {"approve", "reject", "conditional", "abstain", "defer"}

\* Vote(...) with the default conditions; round_number is set by submit_vote.
Vote(unit, vote_type, confidence, round_number) ==
    [unit_designation |-> unit, vote_type |-> vote_type, confidence |-> confidence,
     conditions |-> <<>>, round_number |-> round_number]

\* Vote.weighted_value, in hundredths.
weighted_value(v) ==
    IF v.vote_type = "approve" THEN v.confidence * 10
    ELSE IF v.vote_type = "reject" THEN -(v.confidence * 10)
    ELSE IF v.vote_type = "conditional" THEN v.confidence * 5
    ELSE 0

\* The requirement left as the caller asked for it.
create_session_asked(category, require_unanimous) ==
    [category |-> category,
     max_rounds |-> IF category # "routine" THEN 3 ELSE 1,
     require_unanimous |-> require_unanimous,
     current_round |-> 0,
     is_active |-> TRUE,
     votes_by_round |-> EmptyDict]

\* The VotingSession built by ConsensusProtocol.create_session.
create_session(category, require_unanimous) ==
    [category |-> category,
     max_rounds |-> IF category # "routine" THEN 3 ELSE 1,
     require_unanimous |-> IF category \in {"critical", "self_destruct"}
                           THEN TRUE ELSE require_unanimous,
     current_round |-> 0,
     is_active |-> TRUE,
     votes_by_round |-> EmptyDict]

\* VotingSession.get_current_votes
get_current_votes(session) ==
    IF session.current_round \in DOMAIN session.votes_by_round
    THEN session.votes_by_round[session.current_round]
    ELSE EmptyDict

\* VotingSession.add_vote
add_vote(session, vote) ==
    LET current == get_current_votes(session)
    IN  [session EXCEPT !.votes_by_round =
            DictSet(@, session.current_round,
                    DictSet(current, vote.unit_designation, vote))]

\* sum(1 for v in votes.values() if v.vote_type == t)
count_votes(votes, t) == Cardinality({d \in DOMAIN votes : votes[d].vote_type = t})

\* ConsensusProtocol.check_consensus for a session that exists: the pair
\* (consensus_state, is_final).
check_consensus(session) ==
    LET votes == get_current_votes(session)
        approvals == count_votes(votes, "approve")
        rejections == count_votes(votes, "reject")
        conditionals == count_votes(votes, "conditional")
    IN  IF Cardinality(DOMAIN votes) < 3 THEN <<"pending", FALSE>>
        ELSE IF approvals = 3 THEN <<"unanimous_approve", TRUE>>
        ELSE IF rejections = 3 THEN <<"unanimous_reject", TRUE>>
        ELSE IF session.require_unanimous
        THEN IF session.current_round >= session.max_rounds
             THEN <<"deadlock", TRUE>>
             ELSE <<"pending", FALSE>>
        ELSE IF approvals >= 2 THEN <<"majority_approve", TRUE>>
        ELSE IF rejections >= 2 THEN <<"majority_reject", TRUE>>
        ELSE IF conditionals >= 2 THEN <<"conditional", TRUE>>
        ELSE IF session.current_round >= session.max_rounds
        THEN <<"deadlock", TRUE>>
        ELSE <<"pending", FALSE>>

\* sum(v.weighted_value for v in votes.values()) over the three designations.
session_weighted_score(votes) ==
    Sum([i \in 1..Len(units) |->
            IF designation(units[i]) \in DOMAIN votes
            THEN weighted_value(votes[designation(units[i])]) ELSE 0])

\* The ConsensusResult built by ConsensusProtocol.finalize_session.
finalize_session(session) ==
    LET votes == get_current_votes(session)
        state == check_consensus(session)[1]
    IN  [category |-> session.category,
         state |-> state,
         votes |-> votes,
         rounds_completed |-> session.current_round,
         action_authorized |->
             IF session.category = "self_destruct"
             THEN state = "unanimous_approve"
             ELSE state \in {"unanimous_approve", "majority_approve"},
         final_decision |->
             IF state \in {"unanimous_approve", "majority_approve"} THEN "APPROVE"
             ELSE IF state \in {"unanimous_reject", "majority_reject"} THEN "REJECT"
             ELSE IF state = "conditional" THEN "CONDITIONAL"
             ELSE None,
         weighted_score |-> session_weighted_score(votes),
         approval_count |-> count_votes(votes, "approve"),
         rejection_count |-> count_votes(votes, "reject"),
         unified_conditions |-> UNION {SeqRange(votes[d].conditions) : d \in DOMAIN votes}]

\* The designations of the three units that vote.
Designations == {designation(u) : u \in UnitKeys}

\* The votes submitted: each kind the counts distinguish, at one confidence.
VoteInputs == {<<"approve", 10>>, <<"reject", 5>>, <<"conditional", 10>>}

\* ConsensusProtocol.__init__
NewProtocol == [active_sessions |-> EmptyDict, completed_sessions |-> EmptyDict]

\* How many votes the session stores.
RECURSIVE StoredVotes(_, _)
StoredVotes(session, round) ==
    IF round < 0 THEN 0
    ELSE (IF round \in DOMAIN session.votes_by_round
          THEN Cardinality(DOMAIN session.votes_by_round[round]) ELSE 0)
         + StoredVotes(session, round - 1)

\* The one session id generated in the runs modelled.
SessionId == "session"

\* create_session(query, category, require_unanimous)
CreateSession ==
    /\ protocol = NewProtocol
    /\ \E category \in DecisionCategory, require_unanimous \in BOOLEAN :
          protocol' = [protocol EXCEPT !.active_sessions =
              DictSet(@, SessionId, create_session(category, require_unanimous))]
    /\ UNCHANGED <<engine, system>>

\* submit_vote(session_id, vote) on the active session.
SubmitVote ==
    /\ SessionId \in DOMAIN protocol.active_sessions
    /\ LET session == protocol.active_sessions[SessionId]
       IN  /\ session.is_active
           /\ \E unit \in Designations, input \in VoteInputs :
                /\ \/ StoredVotes(session, session.max_rounds) < MaxVotes
                   \/ unit \in DOMAIN get_current_votes(session)
                /\ protocol' = [protocol EXCEPT !.active_sessions[SessionId] =
                       add_vote(session,
                                Vote(unit, input[1], input[2], session.current_round))]
    /\ UNCHANGED <<engine, system>>

\* session.advance_round() on the active session, below max_rounds.
AdvanceRound ==
    /\ SessionId \in DOMAIN protocol.active_sessions
    /\ LET session == protocol.active_sessions[SessionId]
       IN  /\ session.current_round < session.max_rounds
           /\ protocol' = [protocol EXCEPT !.active_sessions[SessionId].current_round = @ + 1]
    /\ UNCHANGED <<engine, system>>

\* finalize_session(session_id) on the active session: the result is stored
\* and the session removed.
FinalizeSession ==
    /\ SessionId \in DOMAIN protocol.active_sessions
    /\ LET session == protocol.active_sessions[SessionId]
       IN  protocol' = [active_sessions |-> EmptyDict,
                        completed_sessions |->
                            DictSet(protocol.completed_sessions, SessionId,
                                    finalize_session(session))]
    /\ UNCHANGED <<engine, system>>

NextProtocol ==
    \/ CreateSession
    \/ SubmitVote
    \/ AdvanceRound
    \/ FinalizeSession

-----------------------------------------------------------------------------
(* The engine as constructed, and what the backend may answer *)

EngineConfigs ==
    [max_deliberation_rounds : 1..MaxRounds,
     enable_cross_examination : BOOLEAN,
     parallel_processing : BOOLEAN,
     deadlock_resolution : DeadlockResolutions]

\* The backend of the deliberation runs: it answers a verdict request with
\* approve or reject, or the call fails.
RoundsBackend ==
    [client |-> TRUE,
     classify |-> {[kind |-> "text", content |-> "yes_no"]},
     form_verdict |-> {JsonResponse("approve", 10, <<>>), JsonResponse("reject", 5, <<>>),
                       RaiseResponse},
     cross_examine |-> {"critique"},
     synthesis |-> {"text", "raise"}]

\* No observer is registered: the engine as its constructor leaves it.
NoCallbacks ==
    [on_brain_verdict |-> {}, on_round_complete |-> {}, on_decision_complete |-> {}]

\* The state after construction, for a set of configurations, a backend and
\* the registered callbacks.
InitWith(configs, llm, observers) ==
    /\ config \in configs
    /\ backend = llm
    /\ callbacks = observers
    /\ pc = "idle"
    /\ round_num = 0
    /\ calls = NoCalls
    /\ filtered_positions = NoPositions
    /\ verdicts = EmptyDict
    /\ verdict_order = <<>>
    /\ cross_examinations = EmptyDict
    /\ decision = NewDecision
    /\ raised = None
    /\ observed = <<>>
    /\ system = NewSystem
    /\ protocol = NewProtocol

Init == InitWith(EngineConfigs, RoundsBackend, NoCallbacks)

Spec == Init /\ [][Next]_vars

\* The synthesis runs: one sequential round whose verdict requests are
\* answered with every verdict kind at every confidence, with a text that is
\* no JSON, or not at all.
SynthConfigs ==
    [max_deliberation_rounds : {1},
     enable_cross_examination : {TRUE},
     parallel_processing : {FALSE},
     deadlock_resolution : DeadlockResolutions]

SynthBackend ==
    [client |-> TRUE,
     classify |-> {[kind |-> "text", content |-> "yes_no"]},
     form_verdict |-> {JsonResponse(k, c, <<>>) : k \in VerdictType, c \in Confidences}
                      \cup {TextResponse, RaiseResponse},
     cross_examine |-> {"critique"},
     synthesis |-> {"text", "raise"}]

InitSynth == InitWith(SynthConfigs, SynthBackend, NoCallbacks)

NextSynth ==
    \/ Deliberate
    \/ Classify
    \/ StartRound
    \/ SequentialVerdict
    \/ RoundComplete
    \/ Synthesize
    \/ Complete

SpecSynth == InitSynth /\ [][NextSynth]_vars

\* The observed runs: every callback is registered and may raise.
ObservedConfigs ==
    [max_deliberation_rounds : 1..MaxRounds,
     enable_cross_examination : {TRUE},
     parallel_processing : BOOLEAN,
     deadlock_resolution : {"majority"}]

ObservedBackend ==
    [client |-> TRUE,
     classify |-> {[kind |-> "text", content |-> "yes_no"]},
     form_verdict |-> {JsonResponse("approve", 10, <<>>), RaiseResponse},
     cross_examine |-> {"critique"},
     synthesis |-> {"text"}]

RaisingCallbacks ==
    [on_brain_verdict |-> {"return", "raise"},
     on_round_complete |-> {"return", "raise"},
     on_decision_complete |-> {"return", "raise"}]

InitCallbacks == InitWith(ObservedConfigs, ObservedBackend, RaisingCallbacks)

SpecCallbacks == InitCallbacks /\ [][Next]_vars

\* The two-round runs: up to two sequential rounds without cross-examination
\* whose verdict requests are answered with approve, reject, conditional or
\* info, or not at all, so that the last round can end in every consensus
\* type after a first round that ended in another.
TwoRoundConfigs ==
    [max_deliberation_rounds : {2},
     enable_cross_examination : {FALSE},
     parallel_processing : {FALSE},
     deadlock_resolution : DeadlockResolutions]

KindsBackend ==
    [client |-> TRUE,
     classify |-> {[kind |-> "text", content |-> "yes_no"]},
     form_verdict |-> {JsonResponse("approve", 10, <<"a">>), JsonResponse("reject", 5, <<>>),
                       JsonResponse("conditional", 10, <<"c">>),
                       JsonResponse("info", 5, <<>>), RaiseResponse},
     cross_examine |-> {"critique"},
     synthesis |-> {"text", "raise"}]

InitTwoRounds == InitWith(TwoRoundConfigs, KindsBackend, NoCallbacks)

SpecTwoRounds == InitTwoRounds /\ [][NextSynth]_vars

\* The concurrent runs: one parallel round whose verdict requests are
\* answered with every verdict kind, with a text that is no JSON, or not at
\* all, the three calls completing in any order.
OrderConfigs ==
    [max_deliberation_rounds : {1},
     enable_cross_examination : {FALSE},
     parallel_processing : {TRUE},
     deadlock_resolution : DeadlockResolutions]

OrderBackend ==
    [client |-> TRUE,
     classify |-> {[kind |-> "text", content |-> "yes_no"]},
     form_verdict |-> {JsonResponse("approve", 10, <<>>), JsonResponse("approve", 5, <<>>),
                       JsonResponse("reject", 10, <<>>), JsonResponse("reject", 5, <<>>),
                       JsonResponse("conditional", 10, <<>>),
                       JsonResponse("defer", 5, <<>>), JsonResponse("abstain", 5, <<>>),
                       TextResponse, RaiseResponse},
     cross_examine |-> {"critique"},
     synthesis |-> {"text"}]

InitOrder == InitWith(OrderConfigs, OrderBackend, NoCallbacks)

NextOrder ==
    \/ Deliberate
    \/ Classify
    \/ StartRound
    \/ \E b \in BrainKeys : WorkerCompletes(b)
    \/ \E b \in BrainKeys : Collect(b)
    \/ RoundComplete
    \/ Synthesize
    \/ Complete

SpecOrder == InitOrder /\ [][NextOrder]_vars

\* The cross-examination runs: one or two rounds, with and without the
\* cross-examination pass, in which a verdict request and a cross_examine
\* call may fail.
ExamineConfigs ==
    [max_deliberation_rounds : {1, 2},
     enable_cross_examination : BOOLEAN,
     parallel_processing : BOOLEAN,
     deadlock_resolution : {"majority"}]

ExamineBackend ==
    [client |-> TRUE,
     classify |-> {[kind |-> "text", content |-> "yes_no"]},
     form_verdict |-> {JsonResponse("approve", 10, <<>>), RaiseResponse},
     cross_examine |-> {"critique", "raise"},
     synthesis |-> {"text"}]

InitExamine == InitWith(ExamineConfigs, ExamineBackend, NoCallbacks)

SpecExamine == InitExamine /\ [][Next]_vars

\* Every observer is registered and returns.
ReturningCallbacks ==
    [on_brain_verdict |-> {"return"},
     on_round_complete |-> {"return"},
     on_decision_complete |-> {"return"}]

ModesBackend ==
    [client |-> TRUE,
     classify |-> {[kind |-> "text", content |-> "yes_no"]},
     form_verdict |-> {JsonResponse("approve", 10, <<>>), TextResponse, RaiseResponse},
     cross_examine |-> {"critique"},
     synthesis |-> {"text"}]

\* The runs of both modes: rounds with parallel_processing on and off, under
\* observers that return, in which a verdict request is answered with an
\* approval, with a text that is no JSON, or not at all.
InitModes == InitWith(ObservedConfigs, ModesBackend, ReturningCallbacks)

SpecModes == InitModes /\ [][Next]_vars

\* The network layer stands beside an engine left as constructed with the
\* defaults of EngineConfig.
DefaultConfig ==
    [max_deliberation_rounds |-> 2, enable_cross_examination |-> TRUE,
     parallel_processing |-> TRUE, deadlock_resolution |-> "majority"]

InitNetwork == InitWith({DefaultConfig}, RoundsBackend, NoCallbacks)

\* The runs of MAGISystem.deliberate.
SpecSystem == InitNetwork /\ [][NextSystem]_vars

\* The runs of one ConsensusProtocol session.
SpecProtocol == InitNetwork /\ [][NextProtocol]_vars

\* The two-round runs under scheduling: a step of deliberate() that can be
\* taken is taken eventually.
FairSpecTwoRounds == InitTwoRounds /\ [][NextSynth]_vars /\ WF_vars(NextSynth)

\* Confidences a JSON answer may carry outside [0.0, 1.0], in tenths.
OutOfRange == {0 - 5, 15}

\* The unclamped runs: one sequential round whose verdict requests are
\* answered with a JSON object whose confidence lies inside or outside
\* [0.0, 1.0] or is missing, with a text that is no JSON, or not at all.
AnyConfidenceBackend ==
    [client |-> TRUE,
     classify |-> {[kind |-> "text", content |-> "yes_no"]},
     form_verdict |-> {JsonResponse(k, c, <<>>) :
                          k \in {"approve", "reject"}, c \in OutOfRange \cup {5}}
                      \cup {JsonNoConfidence("approve", <<>>), TextResponse, RaiseResponse},
     cross_examine |-> {"critique"},
     synthesis |-> {"text", "raise"}]

InitAnyConfidence == InitWith(SynthConfigs, AnyConfidenceBackend, NoCallbacks)

SpecAnyConfidence == InitAnyConfidence /\ [][NextSynth]_vars

\* What the classifier call may be answered with, stripped and lowercased:
\* the five types, and answers that are none of them.
ClassifierAnswers == ValidTypes \cup {"yes.", "unknown", "not sure", "maybe", ""}

ClassifierOutcomes ==
    {[kind |-> "text", content |-> c] : c \in ClassifierAnswers} \cup {RaiseResponse}

\* A backend whose classifier call has the one outcome given and whose other
\* calls work, a verdict request failing now and then.
ClassifierBackend(outcome) ==
    [client |-> TRUE,
     classify |-> {outcome},
     form_verdict |-> {JsonResponse("approve", 10, <<>>), RaiseResponse},
     cross_examine |-> {"critique"},
     synthesis |-> {"text"}]

\* A backend every call to which fails.
FailingBackend ==
    [client |-> TRUE,
     classify |-> {RaiseResponse},
     form_verdict |-> {RaiseResponse},
     cross_examine |-> {"raise"},
     synthesis |-> {"raise"}]

\* No client is configured: llm_client=None.
NoClientBackend == [FailingBackend EXCEPT !.client = FALSE]

ClassifyBackends ==
    {NoClientBackend, FailingBackend}
    \cup {ClassifierBackend(outcome) : outcome \in ClassifierOutcomes}

ClassifyConfigs ==
    [max_deliberation_rounds : 1..MaxRounds,
     enable_cross_examination : {TRUE},
     parallel_processing : BOOLEAN,
     deadlock_resolution : {"majority"}]

\* The classification runs: the engine is constructed without a client, or
\* with a backend that fails every call, or with one whose classifier call
\* has one of the outcomes above.
InitClassify ==
    \E llm \in ClassifyBackends : InitWith(ClassifyConfigs, llm, NoCallbacks)

SpecClassify == InitClassify /\ [][Next]_vars

\* The hanging runs: one round without cross-examination in which a verdict
\* request may never be answered.
HangConfigs ==
    [max_deliberation_rounds : {1},
     enable_cross_examination : {FALSE},
     parallel_processing : BOOLEAN,
     deadlock_resolution : {"majority"}]

HangBackend ==
    [client |-> TRUE,
     classify |-> {[kind |-> "text", content |-> "yes_no"]},
     form_verdict |-> {JsonResponse("approve", 10, <<>>), JsonResponse("reject", 5, <<>>),
                       HangResponse},
     cross_examine |-> {"critique"},
     synthesis |-> {"text"}]

InitHang == InitWith(HangConfigs, HangBackend, NoCallbacks)

NextHang ==
    \/ Deliberate
    \/ Classify
    \/ StartRound
    \/ \E b \in BrainKeys : WorkerCompletes(b)
    \/ \E b \in BrainKeys : Collect(b)
    \/ SequentialVerdict
    \/ RoundComplete
    \/ Synthesize
    \/ Complete

\* The threads of deliberate() are scheduled: a step that can be taken is
\* taken eventually.
FairSpecHang == InitHang /\ [][NextHang]_vars /\ WF_vars(NextHang)

-----------------------------------------------------------------------------
(* Properties *)

\* _synthesize_decision has run to its end.
Synthesized == pc \in {"complete", "returned"}

\* The verdict dict of the last round of the Decision.
FinalRoundVerdicts == decision.rounds[Len(decision.rounds)].verdicts

\* How many brains hold verdict kind k in the last round.
NumKind(k) == Cardinality({b \in BrainKeys : FinalRoundVerdicts[b].verdict_type = k})

PairwiseDifferent == \A k \in VerdictType : NumKind(k) <= 1

\* C1: when the three final-round verdict kinds are identical and not info,
\* synthesis sets the consensus type to unanimous and the final verdict to
\* the shared kind.
Thm_C1_Unanimous ==
    Synthesized =>
        \A k \in VerdictType \ {"info"} :
            NumKind(k) = 3 =>
                /\ decision.consensus_type = "unanimous"
                /\ decision.final_verdict = k

Wit_C1_Unanimous ==
    /\ Synthesized
    /\ NumKind("defer") = 3
    /\ decision.consensus_type = "unanimous"
    /\ decision.final_verdict = "defer"

\* C2: when exactly two of the three final-round verdicts share a kind K,
\* synthesis sets the consensus type to majority and the final verdict to K.
Thm_C2_Majority ==
    Synthesized =>
        \A k \in VerdictType :
            NumKind(k) = 2 =>
                /\ decision.consensus_type = "majority"
                /\ decision.final_verdict = k

Wit_C2_Majority ==
    /\ Synthesized
    /\ NumKind("approve") = 2
    /\ NumKind("reject") = 1
    /\ decision.consensus_type = "majority"
    /\ decision.final_verdict = "approve"

\* C3: when every final-round verdict kind is info, synthesis sets the
\* consensus type to informational (not unanimous) and the final verdict to
\* info, whatever the confidences.
Thm_C3_Informational ==
    Synthesized =>
        (NumKind("info") = 3 =>
            /\ decision.consensus_type = "informational"
            /\ decision.final_verdict = "info")

Wit_C3_Informational ==
    /\ Synthesized
    /\ NumKind("info") = 3
    /\ \E a, b \in BrainKeys :
          FinalRoundVerdicts[a].confidence # FinalRoundVerdicts[b].confidence
    /\ decision.consensus_type = "informational"

\* C4: when no kind is held by two brains and conditional is among the
\* kinds, the outcome is conditional / conditional if approvals plus
\* conditionals are at least 2, and a deadlock otherwise.
Thm_C4_Conditional ==
    Synthesized =>
        (PairwiseDifferent /\ NumKind("conditional") >= 1 =>
            IF NumKind("approve") + NumKind("conditional") >= 2
            THEN /\ decision.consensus_type = "conditional"
                 /\ decision.final_verdict = "conditional"
            ELSE decision.consensus_type = "deadlock")

Wit_C4_Conditional ==
    /\ Synthesized
    /\ NumKind("conditional") = 1
    /\ NumKind("approve") = 1
    /\ NumKind("reject") = 1
    /\ decision.consensus_type = "conditional"
    /\ decision.final_verdict = "conditional"

\* C5: when the three final-round verdict kinds are pairwise different and
\* conditional is not among them, the consensus type is deadlock.
Thm_C5_Deadlock ==
    Synthesized =>
        (PairwiseDifferent /\ NumKind("conditional") = 0 =>
            decision.consensus_type = "deadlock")

Wit_C5_Deadlock ==
    /\ Synthesized
    /\ NumKind("approve") = 1
    /\ NumKind("reject") = 1
    /\ NumKind("abstain") = 1
    /\ decision.consensus_type = "deadlock"

\* The weighted score as the specification states it, in hundredths: +c for
\* approve, -c for reject, +0.5 c for conditional, 0 otherwise.
StatedScore(v) ==
    CASE v.verdict_type = "approve" -> 10 * v.confidence
      [] v.verdict_type = "reject" -> 0 - 10 * v.confidence
      [] v.verdict_type = "conditional" -> 5 * v.confidence
      [] OTHER -> 0

StatedTotal ==
    StatedScore(FinalRoundVerdicts["melchior"])
    + StatedScore(FinalRoundVerdicts["balthasar"])
    + StatedScore(FinalRoundVerdicts["casper"])

\* C6: in a deadlock under the policy "majority" the final verdict is approve
\* for a positive sum of the weighted scores, reject for a negative sum and
\* abstain for a sum of zero.
Thm_C6_DeadlockBySign ==
    Synthesized /\ decision.consensus_type = "deadlock"
                /\ config.deadlock_resolution = "majority" =>
        decision.final_verdict =
            IF StatedTotal > 0 THEN "approve"
            ELSE IF StatedTotal < 0 THEN "reject"
            ELSE "abstain"

Wit_C6_DeadlockBySign ==
    /\ Synthesized
    /\ decision.consensus_type = "deadlock"
    /\ config.deadlock_resolution = "majority"
    /\ \E a, b \in BrainKeys :
          /\ FinalRoundVerdicts[a].verdict_type = "conditional"
          /\ FinalRoundVerdicts[a].confidence = 10
          /\ FinalRoundVerdicts[b].verdict_type = "reject"
          /\ FinalRoundVerdicts[b].confidence = 5
    /\ StatedTotal = 0
    /\ decision.final_verdict = "abstain"

\* C7: in a deadlock the policy "cautious" gives the final verdict reject and
\* the policy "optimistic" gives approve, whatever the verdicts are.
Thm_C7_FixedPolicies ==
    Synthesized /\ decision.consensus_type = "deadlock" =>
        /\ config.deadlock_resolution = "cautious" => decision.final_verdict = "reject"
        /\ config.deadlock_resolution = "optimistic" => decision.final_verdict = "approve"

Wit_C7_FixedPolicies ==
    /\ Synthesized
    /\ decision.consensus_type = "deadlock"
    /\ config.deadlock_resolution = "cautious"
    /\ StatedTotal > 0
    /\ decision.final_verdict = "reject"

\* C8: the weighted score of every recorded verdict is +c for approve, -c for
\* reject, +0.5 c for conditional and 0 for abstain, defer and info.
Thm_C8_WeightedScore ==
    \A b \in DOMAIN verdicts : weighted_score(verdicts[b]) = StatedScore(verdicts[b])

Wit_C8_WeightedScore ==
    \E a, b, c \in DOMAIN verdicts :
        /\ verdicts[a].verdict_type = "conditional" /\ verdicts[a].confidence = 10
        /\ weighted_score(verdicts[a]) = 50
        /\ verdicts[b].verdict_type = "reject" /\ verdicts[b].confidence = 5
        /\ weighted_score(verdicts[b]) = -50
        /\ verdicts[c].verdict_type = "defer" /\ verdicts[c].confidence = 10
        /\ weighted_score(verdicts[c]) = 0

\* C9: in every round, a brain whose form_verdict call raised is recorded
\* with an abstain verdict of confidence 0.0 carrying the failure text, its
\* key and the round number, and a brain whose call returned is recorded with
\* exactly the verdict returned.
RoundInProgress == pc \in {"collect", "sequential", "cross_examine", "round_complete"}

Cex_C9_Isolation ==
    RoundInProgress =>
        /\ \A b \in DOMAIN verdicts :
              /\ calls[b].state = "raised" =>
                    /\ verdicts[b].verdict_type = "abstain"
                    /\ verdicts[b].confidence = 0
                    /\ verdicts[b].reasoning = calls[b].exception
                    /\ verdicts[b].brain_name = b
                    /\ verdicts[b].deliberation_round = round_num
              /\ calls[b].state = "returned" => verdicts[b] = calls[b].verdict
        /\ pc = "round_complete" => DOMAIN verdicts = BrainKeys

AllSame(round) ==
    \A a, b \in BrainKeys :
        round.verdicts[a].verdict_type = round.verdicts[b].verdict_type

\* C10: a returned Decision holds the rounds up to the first round below
\* max_deliberation_rounds in which all three verdict kinds are identical,
\* and max_deliberation_rounds rounds if there is none; a round with a mere
\* two-of-three majority does not end the loop.
Thm_C10_RoundCap ==
    pc = "returned" =>
        LET n == Len(decision.rounds)
        IN  /\ n \in 1..config.max_deliberation_rounds
            /\ \A r \in 1..(n - 1) : ~AllSame(decision.rounds[r])
            /\ n < config.max_deliberation_rounds => AllSame(decision.rounds[n])

Wit_C10_RoundCap ==
    /\ pc = "returned"
    /\ config.max_deliberation_rounds = 2
    /\ Len(decision.rounds) = 2
    /\ \E k \in VerdictType :
          Cardinality({b \in BrainKeys :
                          decision.rounds[1].verdicts[b].verdict_type = k}) = 2

OnePerBrain(vs) ==
    /\ DOMAIN vs = BrainKeys
    /\ \A b \in BrainKeys : vs[b].brain_name \in {b, name(b)}

\* C12: the verdict dict of every round, as the round leaves verdict
\* collection and as it is stored in the Decision, holds exactly one verdict
\* for each of the three brains and no other key, whichever calls fail and in
\* whatever order they complete.
Thm_C12_OnePerBrain ==
    /\ pc \in {"cross_examine", "round_complete"} => OnePerBrain(verdicts)
    /\ \A i \in 1..Len(decision.rounds) : OnePerBrain(decision.rounds[i].verdicts)

Wit_C12_OnePerBrain ==
    /\ pc = "round_complete"
    /\ config.parallel_processing
    /\ verdict_order = <<"casper", "melchior", "balthasar">>
    /\ calls["casper"].state = "raised"
    /\ calls["melchior"].state = "returned"
    /\ calls["balthasar"].state = "raised"
    /\ OnePerBrain(verdicts)

\* The consensus fields synthesis computes from the round alone.
ConsensusOfRound(round) ==
    synthesize_until_call([NewDecision EXCEPT !.rounds = <<round>>], config, verdict_order)

\* C13: after synthesis, whatever the consensus type, final_verdicts is the
\* verdict dict of the last round run, with one verdict per brain, and the
\* consensus type, the final verdict and the conditions are those computed
\* from the last round alone.
Thm_C13_LastRoundOnly ==
    Synthesized =>
        LET last == decision.rounds[Len(decision.rounds)]
            alone == ConsensusOfRound(last)
        IN  /\ decision.final_verdicts = last.verdicts
            /\ DOMAIN decision.final_verdicts = BrainKeys
            /\ decision.consensus_type = alone.consensus_type
            /\ decision.final_verdict = alone.final_verdict
            /\ decision.conditions = alone.conditions

Wit_C13_LastRoundOnly ==
    /\ Synthesized
    /\ Len(decision.rounds) = 2
    /\ ConsensusOfRound(decision.rounds[1]).consensus_type = "majority"
    /\ ConsensusOfRound(decision.rounds[1]).conditions = <<"a", "a">>
    /\ decision.consensus_type = "deadlock"
    /\ decision.final_verdict = "reject"
    /\ decision.conditions = <<"c">>
    /\ decision.final_verdicts = decision.rounds[2].verdicts

\* C14: the confidence of every verdict recorded in a round lies in
\* [0.0, 1.0], whatever confidence the backend put in its JSON answer.
Cex_C14_ConfidenceRange ==
    /\ \A b \in DOMAIN verdicts : verdicts[b].confidence \in 0..10
    /\ \A i \in 1..Len(decision.rounds) : \A b \in DOMAIN decision.rounds[i].verdicts :
          decision.rounds[i].verdicts[b].confidence \in 0..10

\* C15: no form_verdict call ends in an exception (a failed backend call or
\* an unparseable answer gives a returned info verdict of confidence 0.5).
Cex_C15_NeverRaises ==
    \A b \in BrainKeys :
        /\ calls[b].state # "raised"
        /\ calls[b].state = "returned" /\ calls[b].verdict.summary = "Unable to parse response"
              => /\ calls[b].verdict.verdict_type = "info"
                 /\ calls[b].verdict.confidence = 5

\* The backend is unavailable for the whole call: no client is configured,
\* or every call to the backend fails.
Unavailable(llm) ==
    \/ ~llm.client
    \/ /\ llm.classify = {RaiseResponse}
       /\ llm.form_verdict = {RaiseResponse}
       /\ llm.cross_examine = {"raise"}
       /\ llm.synthesis = {"raise"}

\* C16: with the backend unavailable for the whole call, deliberate runs no
\* round and returns no Decision: it ends in the exception raised by the
\* classification; a returned Decision (a deadlock included) and the raised
\* error are different outcomes.
Thm_C16_Unavailable ==
    /\ Unavailable(backend) =>
          /\ pc \in {"idle", "classify", "raised"}
          /\ pc = "raised" => raised # None /\ decision.rounds = <<>>
    /\ pc = "returned" => raised = None /\ ~Unavailable(backend)

Wit_C16_Unavailable ==
    /\ backend = FailingBackend
    /\ pc = "raised"
    /\ raised = "backend error"

\* C17: the question type set by the classification is the backend's answer
\* when that is one of the five types and open for every other answer.
Cex_C17_Classifier ==
    round_num >= 1 =>
        \A answer \in backend.classify :
            answer.kind = "text" =>
                decision.question_type =
                    IF answer.content \in ValidTypes THEN answer.content ELSE "open"

\* Only the classification call fails.
ClassificationAloneFails ==
    /\ backend.client
    /\ backend.classify = {RaiseResponse}
    /\ "raise" \notin backend.synthesis
    /\ backend.form_verdict # {RaiseResponse}

\* C18: when the classification call alone fails, deliberate does not end in
\* an exception (the type defaults to open and the rounds are run).
Cex_C18_ClassificationFailure ==
    ClassificationAloneFails => pc # "raised"

\* C19: an exception raised by an observer callback does not leave
\* deliberate.
Cex_C19_ObserverException ==
    pc = "raised" => raised # "callback error"

StatedConditions ==
    UNION {SeqRange(FinalRoundVerdicts[b].conditions) : b \in BrainKeys}

\* C22: after synthesis of a decision that is not informational, the
\* conditions of the Decision are the union of the conditions of the
\* final-round verdicts, each condition appearing once.
Cex_C22_Conditions ==
    Synthesized /\ decision.consensus_type # "informational" =>
        /\ SeqRange(decision.conditions) = StatedConditions
        /\ Len(decision.conditions) = Cardinality(StatedConditions)

\* The brains whose final-round verdict kind differs from the final verdict.
Dissenters == {b \in BrainKeys : FinalRoundVerdicts[b].verdict_type # decision.final_verdict}

\* C23: after synthesis of a decision that is not informational, identical
\* final verdict kinds give exactly one note in key_agreements and no
\* key_disagreements; otherwise key_agreements is empty and key_disagreements
\* holds exactly one entry for each brain whose kind differs from the final
\* verdict and none for the others.
Thm_C23_AgreementsDisagreements ==
    Synthesized /\ decision.consensus_type # "informational" =>
        IF \E k \in VerdictType : NumKind(k) = 3
        THEN /\ Len(decision.key_agreements) = 1
             /\ decision.key_disagreements = <<>>
        ELSE /\ decision.key_agreements = <<>>
             /\ Len(decision.key_disagreements) = Cardinality(Dissenters)
             /\ {decision.key_disagreements[i].brain_name :
                    i \in 1..Len(decision.key_disagreements)}
                = {FinalRoundVerdicts[b].brain_name : b \in Dissenters}
             /\ \A i \in 1..Len(decision.key_disagreements) :
                   decision.key_disagreements[i].dissents_with # decision.final_verdict

Wit_C23_AgreementsDisagreements ==
    /\ Synthesized
    /\ decision.consensus_type = "deadlock"
    /\ decision.final_verdict = "approve"
    /\ NumKind("approve") = 1
    /\ Len(decision.key_disagreements) = 2
    /\ decision.key_agreements = <<>>

\* The orders in which the three verdicts can be inserted in the dict.
InsertionOrders ==
    {order \in [1..3 -> BrainKeys] : \A i, j \in 1..3 : i # j => order[i] # order[j]}

\* C24: for the verdicts the three brains hold in the final round, the
\* consensus type and the final verdict of the Decision are those synthesis
\* computes for every order in which the three concurrent calls can complete.
Thm_C24_OrderIndependence ==
    Synthesized =>
        \A order \in InsertionOrders :
            LET other == synthesize_until_call(
                             [NewDecision EXCEPT !.rounds = decision.rounds],
                             config, order)
            IN  /\ other.consensus_type = decision.consensus_type
                /\ other.final_verdict = decision.final_verdict

Wit_C24_OrderIndependence ==
    /\ Synthesized
    /\ config.parallel_processing
    /\ verdict_order = <<"casper", "balthasar", "melchior">>
    /\ FinalRoundVerdicts["casper"].verdict_type = "reject"
    /\ FinalRoundVerdicts["casper"].confidence = 5
    /\ FinalRoundVerdicts["balthasar"].verdict_type = "approve"
    /\ FinalRoundVerdicts["balthasar"].confidence = 10
    /\ FinalRoundVerdicts["melchior"].verdict_type = "defer"
    /\ config.deadlock_resolution = "majority"
    /\ decision.consensus_type = "deadlock"
    /\ decision.final_verdict = "approve"

\* Every form_verdict call of the round has ended and its verdict, returned
\* or degraded, is in the dict.
AllCollected ==
    /\ DOMAIN verdicts = BrainKeys
    /\ \A b \in BrainKeys : calls[b].state \in {"returned", "raised"}

\* C25: in every round and every interleaving of the three calls, the
\* cross-examination pass starts, and a cross_examine call is made, only
\* when the verdicts of all three brains of the round are collected.
Thm_C25_Barrier ==
    /\ pc = "cross_examine" => AllCollected
    /\ RoundInProgress /\ cross_examinations # EmptyDict => AllCollected

Wit_C25_Barrier ==
    /\ pc = "cross_examine"
    /\ config.parallel_processing
    /\ verdict_order = <<"balthasar", "casper", "melchior">>
    /\ calls["casper"].state = "raised"
    /\ cross_examinations = EmptyDict
    /\ AllCollected

\* The ordered pairs (examiner, examined) of distinct brains.
DistinctPairs == {pair \in BrainKeys \X BrainKeys : pair[1] # pair[2]}

\* C26: while the verdict calls of round k+1 are under way, round k is in the
\* Decision with all its verdicts and, where the pass ran, all its
\* cross-examinations; a call is running only during the collection of its
\* own round, and the rounds stored are the rounds before the current one.
Thm_C26_SequentialRounds ==
    /\ pc = "round" \/ RoundInProgress => Len(decision.rounds) = round_num - 1
    /\ \A b \in BrainKeys :
          /\ calls[b].state = "running" => pc = "collect"
          /\ RoundInProgress /\ calls[b].state = "returned" =>
                calls[b].verdict.deliberation_round = round_num
    /\ RoundInProgress /\ round_num > 1 =>
          LET previous_round == decision.rounds[round_num - 1]
          IN  /\ previous_round.round_number = round_num - 1
              /\ DOMAIN previous_round.verdicts = BrainKeys
              /\ config.enable_cross_examination =>
                    DOMAIN previous_round.cross_examinations = DistinctPairs

Wit_C26_SequentialRounds ==
    /\ pc = "collect"
    /\ round_num = 2
    /\ \E b \in BrainKeys : calls[b].state = "running"
    /\ Len(decision.rounds) = 1
    /\ DOMAIN decision.rounds[1].cross_examinations = DistinctPairs

\* The keys the cross-examination dict of round number r has to hold.
StatedExaminations(r) ==
    IF config.enable_cross_examination /\ r < config.max_deliberation_rounds
    THEN DistinctPairs
    ELSE {}

\* C29: the cross-examination dict of a round holds exactly one entry for
\* each ordered pair of distinct brains when cross-examination is enabled and
\* the round number is below max_deliberation_rounds, and is empty otherwise;
\* no brain examines itself.
Thm_C29_CrossExamination ==
    /\ pc = "round_complete" => DOMAIN cross_examinations = StatedExaminations(round_num)
    /\ \A i \in 1..Len(decision.rounds) :
          /\ DOMAIN decision.rounds[i].cross_examinations
                = StatedExaminations(decision.rounds[i].round_number)
          /\ \A b \in BrainKeys : <<b, b>> \notin DOMAIN decision.rounds[i].cross_examinations
    /\ Cardinality(DistinctPairs) = 6

Wit_C29_CrossExamination ==
    /\ pc = "returned"
    /\ config.enable_cross_examination
    /\ Len(decision.rounds) = 2
    /\ DOMAIN decision.rounds[1].cross_examinations = DistinctPairs
    /\ decision.rounds[2].cross_examinations = EmptyDict

\* C30: a cross_examine call, failing or not, adds the entry of its own
\* pair, the error placeholder when it failed, leaves the entries of all
\* other pairs as they are, and does not end the round or the deliberation.
Thm_C30_ExaminationFailure ==
    [][pc = "cross_examine" =>
          /\ raised' = None
          /\ pc' \in {"cross_examine", "round_complete"}
          /\ \A pair \in DOMAIN cross_examinations :
                /\ pair \in DOMAIN cross_examinations'
                /\ cross_examinations'[pair] = cross_examinations[pair]
          /\ \E pair \in DistinctPairs \ DOMAIN cross_examinations :
                /\ DOMAIN cross_examinations' = DOMAIN cross_examinations \cup {pair}
                /\ cross_examinations'[pair] \in {"critique", "Error: backend error"}]_vars

Wit_C30_ExaminationFailure ==
    /\ pc = "returned"
    /\ Len(decision.rounds) = 2
    /\ DOMAIN decision.rounds[1].cross_examinations = DistinctPairs
    /\ decision.rounds[1].cross_examinations[<<"melchior", "casper">>] = "Error: backend error"
    /\ \A pair \in DistinctPairs \ {<<"melchior", "casper">>} :
          decision.rounds[1].cross_examinations[pair] = "critique"

\* C27: when every backend call returns or raises, deliberate eventually
\* returns the Decision (having gone through classification, the rounds and
\* synthesis).
Cex_C27_ReachesDone == <>(pc = "returned")

\* The positions in the log of the invocations of the hook.
HookAt(hook) == {i \in 1..Len(observed) : observed[i].hook = hook}

\* C28: on_round_complete is invoked once for each round run, in the order
\* of the rounds, when the round is in the Decision and before a call of the
\* next round starts; on_decision_complete is invoked at most once, after
\* synthesis, as the last callback, and exactly once when the Decision is
\* returned.
Thm_C28_ObserverOrder ==
    /\ \A r \in 1..Len(decision.rounds) :
          Cardinality({i \in HookAt("on_round_complete") : observed[i].round = r}) = 1
    /\ \A i \in HookAt("on_round_complete") : observed[i].round \in 1..Len(decision.rounds)
    /\ \A i, j \in 1..Len(observed) :
          i < j /\ observed[i].hook = "on_round_complete" =>
              \/ observed[j].hook = "on_decision_complete"
              \/ observed[j].round > observed[i].round
    /\ pc = "round" \/ RoundInProgress =>
          Cardinality(HookAt("on_round_complete")) = round_num - 1
    /\ Cardinality(HookAt("on_decision_complete")) <= 1
    /\ \A i \in HookAt("on_decision_complete") :
          /\ i = Len(observed)
          /\ pc \in {"returned", "raised"}
          /\ decision.final_verdict # None
          /\ DOMAIN decision.final_verdicts = BrainKeys
          /\ observed[i].round = Len(decision.rounds)
    /\ pc = "returned" => Cardinality(HookAt("on_decision_complete")) = 1

Wit_C28_ObserverOrder ==
    /\ pc = "returned"
    /\ Len(decision.rounds) = 2
    /\ Cardinality(HookAt("on_round_complete")) = 2
    /\ Cardinality(HookAt("on_brain_verdict")) = 5
    /\ observed[Len(observed)].hook = "on_decision_complete"
    /\ observed[Len(observed) - 1] = [hook |-> "on_round_complete", round |-> 2]

\* The position the engine derives from a verdict: its summary and the head
\* of its reasoning.
StatedPosition(v) == <<v.summary, v.reasoning>>

\* C31: in round 1 every brain is handed no other_positions; in every round
\* r >= 2 each brain is handed exactly the positions of the two other brains,
\* taken from the verdicts of round r-1, and no entry under its own key.
Thm_C31_OtherPositions ==
    RoundInProgress =>
        \A b \in BrainKeys :
            IF round_num = 1
            THEN ~filtered_positions[b].given
            ELSE /\ filtered_positions[b].given
                 /\ DOMAIN filtered_positions[b].positions = BrainKeys \ {b}
                 /\ \A k \in BrainKeys \ {b} :
                       filtered_positions[b].positions[k]
                           = StatedPosition(decision.rounds[round_num - 1].verdicts[k])

Wit_C31_OtherPositions ==
    /\ pc = "collect"
    /\ round_num = 2
    /\ calls["casper"].state = "running"
    /\ filtered_positions["casper"].given
    /\ DOMAIN filtered_positions["casper"].positions = {"melchior", "balthasar"}
    /\ filtered_positions["casper"].positions["melchior"][1] = "Error: callback error"
    /\ filtered_positions["casper"].positions["balthasar"][1] = "summary"

\* What synthesis computes from the rounds of the Decision under the policy.
UnderPolicy(policy) ==
    synthesize_until_call([NewDecision EXCEPT !.rounds = decision.rounds],
                          [config EXCEPT !.deadlock_resolution = policy], verdict_order)

\* C32: for the verdicts of the final round, the consensus type of the
\* Decision is the one synthesis computes under every deadlock_resolution
\* policy, and so is the final verdict whenever the consensus type is not
\* deadlock.
Thm_C32_PolicyOnlyInDeadlock ==
    Synthesized =>
        \A policy \in DeadlockResolutions :
            /\ UnderPolicy(policy).consensus_type = decision.consensus_type
            /\ decision.consensus_type # "deadlock" =>
                  UnderPolicy(policy).final_verdict = decision.final_verdict

Wit_C32_PolicyOnlyInDeadlock ==
    /\ Synthesized
    /\ config.deadlock_resolution = "cautious"
    /\ decision.consensus_type = "conditional"
    /\ decision.final_verdict = "conditional"
    /\ NumKind("reject") = 1
    /\ UnderPolicy("optimistic").final_verdict = "conditional"
    /\ _resolve_deadlock(config, FinalRoundVerdicts, verdict_order)
          # _resolve_deadlock([config EXCEPT !.deadlock_resolution = "optimistic"],
                              FinalRoundVerdicts, verdict_order)

\* C33: an exception raised by the on_brain_verdict callback for a brain is
\* ignored: the verdict the brain's call returned stays recorded for the
\* brain in the round, and is not replaced by a degraded verdict.
Cex_C33_ObserverIgnored ==
    \A b \in DOMAIN verdicts :
        calls[b].state = "returned" =>
            /\ verdicts[b] = calls[b].verdict
            /\ verdicts[b].verdict_type # "abstain"

\* The verdict a round has to record for brain b from the outcome of b's
\* form_verdict call, whatever the mode: the verdict returned, or an abstain
\* verdict of confidence 0.0 carrying the failure.
RecordsOutcome(v, b, outcome, round_number) ==
    IF outcome.state = "returned"
    THEN v = outcome.verdict
    ELSE /\ v.brain_name = b
         /\ v.verdict_type = "abstain"
         /\ v.confidence = 0
         /\ v.reasoning = outcome.exception
         /\ v.deliberation_round = round_number

\* C34: with parallel_processing on or off, a round records for each brain
\* the same verdict, fixed by the outcome of the brain's call alone (the
\* degraded verdict for a failed call), and notifies on_brain_verdict for
\* exactly the brains whose call returned, once each.
Thm_C34_ModesAgree ==
    /\ [](pc \in {"cross_examine", "round_complete"} =>
            /\ DOMAIN verdicts = BrainKeys
            /\ \A b \in BrainKeys : RecordsOutcome(verdicts[b], b, calls[b], round_num)
            /\ Cardinality({i \in 1..Len(observed) :
                               observed[i] = [hook |-> "on_brain_verdict", round |-> round_num]})
                  = Cardinality({b \in BrainKeys : calls[b].state = "returned"}))
    /\ [][\A b \in BrainKeys :
              b \notin DOMAIN verdicts /\ b \in DOMAIN verdicts' =>
                  /\ RecordsOutcome(verdicts'[b], b, calls'[b], round_num)
                  /\ observed' = IF calls'[b].state = "returned"
                                 THEN Append(observed, [hook |-> "on_brain_verdict",
                                                        round |-> round_num])
                                 ELSE observed]_vars

Wit_C34_ModesAgree ==
    /\ pc = "round_complete"
    /\ ~config.parallel_processing
    /\ round_num = 1
    /\ calls["melchior"].state = "raised"
    /\ verdicts["melchior"].verdict_type = "abstain"
    /\ verdicts["balthasar"].verdict_type = "approve"
    /\ verdicts["casper"].verdict_type = "info"
    /\ observed = << [hook |-> "on_brain_verdict", round |-> 1],
                     [hook |-> "on_brain_verdict", round |-> 1] >>

\* All three form_verdict calls of the round failed: every brain is recorded
\* with the degraded verdict.
AllFailed(round) ==
    \A b \in BrainKeys :
        /\ round.verdicts[b].verdict_type = "abstain"
        /\ round.verdicts[b].confidence = 0
        /\ round.verdicts[b].summary = "Error: backend error"

\* C35: when the classification succeeded and all three calls of a round
\* below max_deliberation_rounds failed, the three degraded verdicts count as
\* consensus: the round is the last one run, and once the synthesis call has
\* succeeded the Decision is unanimous with the final verdict abstain.
Thm_C35_AllFail ==
    \A r \in 1..Len(decision.rounds) :
        AllFailed(decision.rounds[r]) /\ r < config.max_deliberation_rounds =>
            /\ Len(decision.rounds) = r
            /\ round_num = r
            /\ pc \in {"synthesize", "complete", "returned"}
            /\ Synthesized =>
                  /\ decision.consensus_type = "unanimous"
                  /\ decision.final_verdict = "abstain"

Wit_C35_AllFail ==
    /\ pc = "returned"
    /\ config.max_deliberation_rounds = 2
    /\ Len(decision.rounds) = 1
    /\ AllFailed(decision.rounds[1])
    /\ decision.question_type = "analytical"
    /\ decision.consensus_type = "unanimous"
    /\ decision.final_verdict = "abstain"

BeforeSynthesis ==
    [NewDecision EXCEPT !.question_type = decision.question_type,
                        !.rounds = decision.rounds]

\* The answer of an informational decision: each brain's reasoning, in the
\* dict's iteration order.
StatedInformationalAnswer ==
    [i \in 1..Len(verdict_order) |->
        <<verdict_order[i], FinalRoundVerdicts[verdict_order[i]].reasoning>>]

\* The consensus type is informational exactly for three info verdicts, and
\* synthesis of such a round does not end in the exception of a backend call.
InformationalIff ==
    /\ Synthesized => (decision.consensus_type = "informational" <=> NumKind("info") = 3)
    /\ Len(decision.rounds) > 0 /\ NumKind("info") = 3 => pc # "raised"

\* C37: the consensus type is informational if and only if every
\* final-round verdict kind is info; in that case synthesis sets only
\* consensus_type, final_verdict and final_answer, makes no backend call, and
\* leaves conditions, key_agreements and key_disagreements empty.
Cex_C37_InformationalFrame ==
    /\ InformationalIff
    /\ Synthesized /\ decision.consensus_type = "informational" =>
          decision = [BeforeSynthesis EXCEPT
                         !.consensus_type = "informational",
                         !.final_verdict = "info",
                         !.final_answer = StatedInformationalAnswer]

\* C37, amended: as above, with final_verdicts among the fields synthesis
\* sets: an informational decision differs from the Decision before
\* synthesis in final_verdicts, consensus_type, final_verdict and
\* final_answer, and in nothing else.
Thm_C37_InformationalFrame ==
    /\ InformationalIff
    /\ Synthesized /\ decision.consensus_type = "informational" =>
          /\ decision = [BeforeSynthesis EXCEPT
                            !.final_verdicts = FinalRoundVerdicts,
                            !.consensus_type = "informational",
                            !.final_verdict = "info",
                            !.final_answer = StatedInformationalAnswer]
          /\ decision.conditions = <<>>
          /\ decision.key_agreements = <<>>
          /\ decision.key_disagreements = <<>>
          /\ decision.synthesis = ""

Wit_C37_InformationalFrame ==
    /\ pc = "returned"
    /\ NumKind("info") = 3
    /\ decision.consensus_type = "informational"
    /\ decision.final_verdict = "info"
    /\ Len(decision.final_answer) = 3
    /\ DOMAIN decision.final_verdicts = BrainKeys
    /\ decision.synthesis = ""
    /\ \E b \in BrainKeys : FinalRoundVerdicts[b].summary = "Unable to parse response"

\* A worker thread of the executor exists: a submitted call has not ended.
WorkerAlive == \E b \in BrainKeys : calls[b].state = "running"

\* C38: the threads executing the form_verdict calls never write the round's
\* verdict dict or the Decision: while the calls are collected, a step that
\* ends a call changes the call's future and nothing else, every step that
\* records a verdict, invokes an observer or changes the Decision is a step
\* of the thread of deliberate() and ends no call, and no worker thread is
\* alive outside the collection of its round.
Thm_C38_SingleWriter ==
    [][/\ WorkerAlive => pc = "collect" /\ config.parallel_processing
       /\ pc = "collect" /\ calls' # calls =>
             /\ \E b \in BrainKeys :
                   /\ calls[b].state = "running"
                   /\ calls' = [calls EXCEPT ![b] = calls'[b]]
             /\ UNCHANGED <<verdicts, verdict_order, cross_examinations, decision,
                            observed, pc, round_num, raised>>
       /\ pc = "collect" /\ (verdicts' # verdicts \/ decision' # decision
                                                  \/ observed' # observed) =>
             calls' = calls]_vars

Wit_C38_SingleWriter ==
    /\ pc = "collect"
    /\ calls["melchior"].state = "returned"
    /\ "melchior" \notin DOMAIN verdicts
    /\ calls["balthasar"].state = "running"
    /\ calls["casper"].state = "raised"
    /\ DOMAIN verdicts = {"casper"}
    /\ observed = <<>>

\* The verdict strings the three units returned.
ReturnedVerdicts == {verdict_of(system.result.verdicts[u]) : u \in UnitKeys}

\* C39: a deliberate call of the MAGISystem with require_unanimous set
\* authorizes the action only if all three units returned the same verdict;
\* every split leaves the action unauthorized.
Cex_C39_RequireUnanimous ==
    system.pc = "returned" /\ system.require_unanimous =>
        (system.result.action_authorized => Cardinality(ReturnedVerdicts) = 1)

\* The result of the finalized session.
SessionResult == protocol.completed_sessions[SessionId]

Finalized == SessionId \in DOMAIN protocol.completed_sessions

\* C40: the result of a finalized session of category critical or
\* self_destruct has action_authorized set only if the current round holds
\* three votes and all three are approve; two approvals of three never
\* authorize the action, and the state is never majority_approve.
Thm_C40_CriticalUnanimous ==
    Finalized /\ SessionResult.category \in {"critical", "self_destruct"} =>
        /\ SessionResult.action_authorized =>
              /\ DOMAIN SessionResult.votes = Designations
              /\ \A d \in Designations : SessionResult.votes[d].vote_type = "approve"
              /\ \A d \in Designations :
                    SessionResult.votes[d].round_number = SessionResult.rounds_completed
        /\ SessionResult.state # "majority_approve"
        /\ SessionResult.approval_count = 2 => ~SessionResult.action_authorized

Wit_C40_CriticalUnanimous ==
    /\ Finalized
    /\ SessionResult.category = "critical"
    /\ SessionResult.rounds_completed = 1
    /\ DOMAIN SessionResult.votes = Designations
    /\ SessionResult.approval_count = 2
    /\ SessionResult.rejection_count = 1
    /\ SessionResult.state = "pending"
    /\ ~SessionResult.action_authorized

====
